---- MODULE Spec2Model ----
(***************************************************************************)
(* Model of src/src/infinite-canvas/scene.tsx: the chunk streaming and     *)
(* camera/input controller (SceneController), the texture cache            *)
(* (getTexture) and the placement generator (generateChunkPlanes).         *)
(*                                                                         *)
(* Numbers.  The program computes in IEEE doubles.  The model computes in  *)
(* fixed point: a real r is the integer r * UNIT.  Every scale constant of *)
(* the source (0.18, 0.16, 0.9, 0.8, 0.006, 0.012, 0.02, 0.01, 3.2, 110,   *)
(* 140, 260) is exact at this resolution.  Roundings are chosen so that    *)
(* the comparisons the code makes keep their outcome class:                *)
(*   - a lerp step moves strictly toward its target and never past it      *)
(*     (the step is rounded away from zero);                               *)
(*   - a decay (x * 0.9, x * 0.8) keeps the sign and shrinks (rounded      *)
(*     toward zero);                                                       *)
(*   - a target visibility is 0 in the model exactly when it is 0 in the   *)
(*     program (the square of the depth ramp is rounded up).               *)
(***************************************************************************)
EXTENDS Integers, Sequences, FiniteSets, TLC

(***************************************************************************)
(* Fixed-point resolution: 1.0 is UNIT.                                    *)
(***************************************************************************)
UNIT == 10000

(* Program constants, scene.tsx lines 31-39. *)
CHUNK_SIZE == 110
ITEMS_PER_CHUNK == 5
RENDER_DISTANCE == 2
CHUNK_FADE_MARGIN == 1
MAX_VELOCITY == (32 * UNIT) \div 10
VISIBILITY_LERP == 18
DEPTH_FADE_START == 140
DEPTH_FADE_END == 260
MAX_DIST == RENDER_DISTANCE + CHUNK_FADE_MARGIN

(***************************************************************************)
(* Arithmetic helpers.                                                     *)
(***************************************************************************)
Abs(a) == IF a < 0 THEN -a ELSE a
MaxOf(a, b) == IF a >= b THEN a ELSE b
MinOf(a, b) == IF a <= b THEN a ELSE b
Sign(a) == IF a > 0 THEN 1 ELSE IF a < 0 THEN -1 ELSE 0

(* a * num / den rounded toward zero. *)
MulDivTrunc(a, num, den) == Sign(a) * ((Abs(a) * num) \div den)

(* a * num / den rounded away from zero. *)
MulDivAway(a, num, den) == Sign(a) * ((Abs(a) * num + den - 1) \div den)

(* const clamp = (v, min, max) => Math.max(min, Math.min(max, v)) *)
clamp(v, min, max) == MaxOf(min, MinOf(max, v))

(* A lerp that takes the factor as 1 + t and so passes its target. *)
lerp_Overshoot(a, b, t) == a + MulDivAway(b - a, 100 + t, 100)

(* const lerp = (a, b, t) => a + (b - a) * t, with t given in hundredths. *)
lerp(a, b, t) == a + MulDivAway(b - a, t, 100)

(***************************************************************************)
(* Bounds of the model.                                                    *)
(***************************************************************************)
(* Input events that add motion (key down, mouse down/move, wheel, touch) in
   one behaviour. *)
MaxEvents == 2
(* Input events arrive before frame InputFrames + 1: the later frames run
   without input. *)
InputFrames == 2
(* Frame steps in one behaviour of Spec. *)
MaxFrames == 30

(***************************************************************************)
(* State.                                                                  *)
(***************************************************************************)
VARIABLES
  camera,        \* camera.position, fixed point
  velocity,      \* velocity.current
  targetVel,     \* targetVel.current
  scrollAccum,   \* scrollAccum.current
  keys,          \* keys.current: the set of held key names
  isDragging,    \* isDragging.current
  lastMouse,     \* lastMouse.current, pixels
  lastTouches,   \* lastTouches.current: sequence of contacts, pixels
  lastTouchDist, \* lastTouchDist.current, pixels
  cursor,        \* canvas.style.cursor
  buttons,       \* environment: the mouse buttons pressed on the canvas and held
  contacts,      \* environment: the touch list of the last touch event
  frames,        \* frames.current
  sinceReset,    \* performance.now() - lastTime.current at the last frame, ms
  fps,           \* the value last passed to onFpsUpdate
  chunks,        \* the React state `chunks`: the ChunkData list, keyed by key
  pushed,        \* the length of that list
  prevChunks,    \* history: `prev` of the last setChunks updater
  keyNudge,      \* history: what the key phase of the last frame added to targetVel
  events,        \* history: input events so far
  frameNo,       \* history: frame steps so far (capped)
  textureCache,  \* the module's textureCache: url -> texture
  videoElements, \* the module's videoElements: url -> video element
  objects,       \* history: objects created so far (textures, video elements)
  loads,         \* history: url -> underlying loads started for it
  returned,      \* history: url -> the textures getTexture has returned for it
  genLog,        \* history: arguments -> the first result of generateChunkPlanes
  lastGen,       \* history: the last call of generateChunkPlanes and its result
  hashed,        \* history: the last call of hashString and its result
  genCalls,      \* history: calls of generateChunkPlanes and getTexture so far
  loaded,        \* the URLs whose image has loaded or whose video has metadata
  surfaces,      \* the MediaPlane instances: state, refs and memo of each
  rendered       \* what the last render of a Chunk or of the scene root returned

env == <<buttons, contacts>>
ctl == <<camera, velocity, targetVel, scrollAccum, keys, isDragging, lastMouse,
         lastTouches, lastTouchDist, cursor, frames, sinceReset, fps, env>>
hist == <<prevChunks, keyNudge, events, frameNo>>
cacheVars == <<textureCache, videoElements, objects, loads, returned>>
genVars == <<genLog, lastGen, hashed>>
surfVars == <<loaded, surfaces, rendered>>
aux == <<cacheVars, genVars, genCalls, surfVars>>
vars == <<ctl, chunks, pushed, hist, aux>>

Vec(x, y, z) == [x |-> x, y |-> y, z |-> z]

(***************************************************************************)
(* CHUNK_OFFSETS, scene.tsx lines 40-50: the nested loops over dx, dy, dz  *)
(* in -MAX_DIST..MAX_DIST, in loop order, keeping dist <= MAX_DIST.        *)
(***************************************************************************)
OffsetSide == 2 * MAX_DIST + 1

OffsetAt(i) ==
  LET dx == ((i - 1) \div (OffsetSide * OffsetSide)) - MAX_DIST
      dy == (((i - 1) \div OffsetSide) % OffsetSide) - MAX_DIST
      dz == ((i - 1) % OffsetSide) - MAX_DIST
  IN  [dx |-> dx, dy |-> dy, dz |-> dz,
       dist |-> MaxOf(Abs(dx), MaxOf(Abs(dy), Abs(dz)))]

OffsetKept(o) == ~(o.dist > MAX_DIST)

CHUNK_OFFSETS ==
  SelectSeq([i \in 1..(OffsetSide * OffsetSide * OffsetSide) |-> OffsetAt(i)],
            OffsetKept)

(***************************************************************************)
(* Target visibility, scene.tsx lines 536-549 (and 576-589 in the seed).   *)
(***************************************************************************)
(* offset.dist <= RENDER_DISTANCE ? 1
     : Math.max(0, 1 - (offset.dist - RENDER_DISTANCE) / Math.max(CHUNK_FADE_MARGIN, 0.0001)) *)
gridTarget(dist) ==
  IF dist <= RENDER_DISTANCE
    THEN UNIT
    ELSE MaxOf(0, UNIT - (((dist - RENDER_DISTANCE) * UNIT * UNIT)
                            \div MaxOf(CHUNK_FADE_MARGIN * UNIT, 1)))

(* (cz + offset.dz + 0.5) * CHUNK_SIZE *)
chunkCenterZ(czdz) == ((2 * czdz + 1) * CHUNK_SIZE * UNIT) \div 2

(* absDepth <= DEPTH_FADE_START ? 1
     : Math.max(0, 1 - (absDepth - DEPTH_FADE_START) / Math.max(DEPTH_FADE_END - DEPTH_FADE_START, 0.0001))
   The quotient of two fixed-point numbers is taken with the common factor
   UNIT cancelled; it is rounded down, so depthLinear > 0 exactly when
   absDepth < DEPTH_FADE_END. *)
depthLinear(absDepth) ==
  IF absDepth <= DEPTH_FADE_START * UNIT
    THEN UNIT
    ELSE MaxOf(0, UNIT - ((absDepth - DEPTH_FADE_START * UNIT)
                            \div MaxOf(DEPTH_FADE_END - DEPTH_FADE_START, 1)))

(* depthLinear * depthLinear, rounded up: 0 only for depthLinear = 0. *)
depthTarget(absDepth) ==
  (depthLinear(absDepth) * depthLinear(absDepth) + UNIT - 1) \div UNIT

(* Math.min(gridTarget, depthTarget) for the chunk at offset o of camera
   chunk z coordinate cz, the camera being at depth camZ. *)
targetVisibility(o, cz, camZ) ==
  MinOf(gridTarget(o.dist), depthTarget(Abs(chunkCenterZ(cz + o.dz) - camZ)))

(* A seed that reads the depth of the camera, z = 50, as the frame does. *)
seedVisibility_CameraDepth(o) ==
  MinOf(gridTarget(o.dist), depthTarget(Abs(chunkCenterZ(o.dz) - 50 * UNIT)))

(* The seed's own copy of the formula, scene.tsx lines 576-589: the camera
   chunk and the camera depth do not occur in it. *)
seedVisibility(o) ==
  MinOf(gridTarget(o.dist), depthTarget(Abs(chunkCenterZ(o.dz))))

(* One ChunkData. The key `${cx},${cy},${cz}` is the triple itself: the
   decimal form of an integer triple determines it. *)
ChunkData(cx, cy, cz, v) ==
  [key |-> <<cx, cy, cz>>, cx |-> cx, cy |-> cy, cz |-> cz, visibility |-> v]

(* A sequence evaluated once (a function constructor is evaluated anew at
   each application otherwise). *)
Always(e) == TRUE
Forced(seq) == SelectSeq(seq, Always)

(* The position in CHUNK_OFFSETS of the offset that gives key k from the
   camera chunk (cx, cy, cz). *)
offsetIndex(k, cx, cy, cz) ==
  ((k[1] - cx + MAX_DIST) * OffsetSide + (k[2] - cy + MAX_DIST)) * OffsetSide
    + (k[3] - cz + MAX_DIST) + 1

(* A list of ChunkData, one per offset, as the list is held in the model:
   keyed by its entries' keys (the order of the array is never read, and
   prevMap, lines 528-531, is this keying). `entries` has one entry per
   offset in CHUNK_OFFSETS order; `kept` are the positions pushed. *)
keyed(entries, kept, cx, cy, cz) ==
  [k \in {entries[i].key : i \in kept} |-> entries[offsetIndex(k, cx, cy, cz)]]

(* initialChunks, scene.tsx lines 575-598. *)
initialChunks ==
  Forced([i \in 1..Len(CHUNK_OFFSETS) |->
     LET o == CHUNK_OFFSETS[i]
     IN  ChunkData(o.dx, o.dy, o.dz, seedVisibility(o))])

(***************************************************************************)
(* The setChunks updater of a frame, scene.tsx lines 527-570.              *)
(***************************************************************************)
(* A chunk that was not active taken as fully visible. *)
currentVisibility_Full(prevMap, keyChunk) ==
  IF keyChunk \in DOMAIN prevMap THEN prevMap[keyChunk].visibility ELSE UNIT

(* prevChunk?.visibility ?? 0 *)
currentVisibility(prevMap, keyChunk) ==
  IF keyChunk \in DOMAIN prevMap THEN prevMap[keyChunk].visibility ELSE 0

(* A loop that has lost its continue. *)
dropChunk_Never(visibility, target) == FALSE

(* Dropping on the target alone, whatever is still visible. *)
dropChunk_TargetOnly(visibility, target) == target = 0

(* Dropping on the eased value alone, whatever the target. *)
dropChunk_EasedOnly(visibility, target) == visibility < UNIT \div 100

(* if (visibility < 0.01 && targetVisibility === 0) continue; *)
dropChunk(visibility, target) == visibility < UNIT \div 100 /\ target = 0

(* The loop body for one offset: the entry, and whether it is skipped. *)
chunkStep(prevMap, o, cx, cy, cz, camZ) ==
  LET target == targetVisibility(o, cz, camZ)
      keyChunk == <<cx + o.dx, cy + o.dy, cz + o.dz>>
      visibility == lerp(currentVisibility(prevMap, keyChunk), target, VISIBILITY_LERP)
  IN  [drop |-> dropChunk(visibility, target),
       key |-> keyChunk, cx |-> cx + o.dx, cy |-> cy + o.dy,
       cz |-> cz + o.dz, visibility |-> visibility]

(* The loop over CHUNK_OFFSETS: every entry computed, and the positions of
   those pushed to `next`. *)
chunkSteps(prevMap, cx, cy, cz, camZ) ==
  Forced([i \in 1..Len(CHUNK_OFFSETS) |->
            chunkStep(prevMap, CHUNK_OFFSETS[i], cx, cy, cz, camZ)])

pushedOf(steps) == {i \in 1..Len(steps) : ~steps[i].drop}

(* next, keyed, from the loop's entries. *)
nextChunks(steps, cx, cy, cz) ==
  LET all == Forced([i \in 1..Len(steps) |->
                ChunkData(steps[i].cx, steps[i].cy, steps[i].cz, steps[i].visibility)])
  IN  keyed(all, pushedOf(steps), cx, cy, cz)

(* The chunk two chunks further along the axis. *)
chunkCoord_TwoOff(pos) == pos \div (CHUNK_SIZE * UNIT) + 2

(* Math.floor(camera.position.a / CHUNK_SIZE) *)
chunkCoord(pos) == pos \div (CHUNK_SIZE * UNIT)

(***************************************************************************)
(* Inputs the model draws from.                                            *)
(***************************************************************************)
(* KeyboardEvent.key values. *)
RawKeys == {"w", "W", "s", "a", "d", "q", "e", " ",
            "ArrowUp", "ArrowDown", "ArrowLeft", "ArrowRight", "Shift"}

(* e.key.toLowerCase() *)
toLowerCase(key) ==
  CASE key = "W" -> "w"
    [] key = "ArrowUp" -> "arrowup"
    [] key = "ArrowDown" -> "arrowdown"
    [] key = "ArrowLeft" -> "arrowleft"
    [] key = "ArrowRight" -> "arrowright"
    [] key = "Shift" -> "shift"
    [] OTHER -> key

(* clientX / clientY of mouse events and of touch contacts, pixels. *)
Pt(x, y) == [clientX |-> x, clientY |-> y]
MousePts == {Pt(0, 0), Pt(300, -40)}
TouchPts == {Pt(0, 0), Pt(30, 40)}
(* WheelEvent.deltaY *)
WheelDeltas == {100, -100}
(* Milliseconds between two frames. *)
FrameDts == {16}

(* Array.from(e.touches): up to three contacts. *)
TouchLists(lo, hi) ==
  UNION {[1..n -> TouchPts] : n \in lo..hi}

(***************************************************************************)
(* Init: the state after mount, i.e. after the refs are created            *)
(* (lines 309-321), the input effect has set the cursor (line 343), the    *)
(* Canvas has placed the camera (line 619) and the initial-chunks effect   *)
(* has run (lines 574-601).                                                *)
(***************************************************************************)
(* The MediaPlane instances followed. *)
Surfaces == {1, 2}

(* No MediaItem. *)
NoMedia == [url |-> "none", type |-> "none"]

(* A MediaPlane that is not mounted: useState(null), useState(false),
   useRef(false), no material, no memo; listeners: the media elements that
   hold a load handler of this instance (lines 171-175, 232, 248); removed:
   history, the elements a cleanup has taken a pending handler from. *)
unmounted ==
  [mounted |-> FALSE, media |-> NoMedia, texture |-> "none", isReady |-> FALSE,
   readyRef |-> FALSE, listeners |-> {}, opacity |-> 0, visibility |-> 0,
   displayScale |-> <<0, 0>>, removed |-> {}]

Init ==
  /\ camera = Vec(0, 0, 50 * UNIT)
  /\ velocity = Vec(0, 0, 0)
  /\ targetVel = Vec(0, 0, 0)
  /\ scrollAccum = 0
  /\ keys = {}
  /\ isDragging = FALSE
  /\ lastMouse = Pt(0, 0)
  /\ lastTouches = <<>>
  /\ lastTouchDist = 0
  /\ cursor = "grab"
  /\ buttons = {}
  /\ contacts = <<>>
  /\ frames = 0
  /\ sinceReset = 0
  /\ fps = 0
  /\ chunks = keyed(initialChunks, 1..Len(initialChunks), 0, 0, 0)
  /\ pushed = Len(initialChunks)
  /\ prevChunks = <<>>
  /\ keyNudge = Vec(0, 0, 0)
  /\ events = 0
  /\ frameNo = 0
  /\ textureCache = <<>>
  /\ videoElements = <<>>
  /\ objects = 0
  /\ loads = <<>>
  /\ returned = <<>>
  /\ genLog = <<>>
  /\ lastGen = <<>>
  /\ hashed = [str |-> <<>>, h |-> <<0, 0>>]
  /\ genCalls = 0
  /\ loaded = {}
  /\ surfaces = [s \in Surfaces |-> unmounted]
  /\ rendered = [component |-> "none", n |-> 0, ids |-> <<>>, slots |-> <<>>,
                 children |-> <<>>]

(***************************************************************************)
(* Input handlers, scene.tsx lines 345-429.                                *)
(***************************************************************************)
InWindow == frameNo < InputFrames
Counted == InWindow /\ events < MaxEvents /\ events' = events + 1

(* onKeyDown *)
onKeyDown(key) ==
  /\ keys' = keys \cup {toLowerCase(key)}
  /\ UNCHANGED <<camera, velocity, targetVel, scrollAccum, isDragging, lastMouse,
                 lastTouches, lastTouchDist, cursor, frames, sinceReset, fps,
                 chunks, pushed, prevChunks, keyNudge, frameNo, aux, env>>

(* onKeyDown within the window of input events. *)
KeyDown(key) == Counted /\ onKeyDown(key)

(* onKeyUp; releasing a key that is not held changes nothing. *)
KeyUp(key) ==
  /\ InWindow
  /\ toLowerCase(key) \in keys
  /\ keys' = keys \ {toLowerCase(key)}
  /\ UNCHANGED <<camera, velocity, targetVel, scrollAccum, isDragging, lastMouse,
                 lastTouches, lastTouchDist, cursor, frames, sinceReset, fps,
                 chunks, pushed, prevChunks, keyNudge, events, frameNo, aux, env>>

(* onMouseDown, of any button: the handler does not read e.button. *)
onMouseDown(p, button) ==
  /\ isDragging' = TRUE
  /\ lastMouse' = p
  /\ cursor' = "grabbing"
  /\ buttons' = buttons \cup {button}
  /\ UNCHANGED <<camera, velocity, targetVel, scrollAccum, keys,
                 lastTouches, lastTouchDist, frames, sinceReset, fps,
                 chunks, pushed, prevChunks, keyNudge, frameNo, aux, contacts>>

(* onMouseDown within the window of input events. *)
MouseDown(p, button) == Counted /\ onMouseDown(p, button)

(* onMouseUp, of any button. *)
MouseUp(button) ==
  /\ InWindow
  /\ isDragging' = FALSE
  /\ cursor' = "grab"
  /\ buttons' = buttons \ {button}
  /\ UNCHANGED <<camera, velocity, targetVel, scrollAccum, keys, lastMouse,
                 lastTouches, lastTouchDist, frames, sinceReset, fps,
                 chunks, pushed, prevChunks, keyNudge, events, frameNo, aux, contacts>>

(* onMouseMove: 0.012 per pixel *)
onMouseMove(p) ==
  /\ IF ~isDragging
       THEN UNCHANGED <<targetVel, lastMouse>>
       ELSE /\ targetVel' =
                 [targetVel EXCEPT
                    !.x = @ - (p.clientX - lastMouse.clientX) * ((12 * UNIT) \div 1000),
                    !.y = @ + (p.clientY - lastMouse.clientY) * ((12 * UNIT) \div 1000)]
            /\ lastMouse' = p
  /\ UNCHANGED <<camera, velocity, scrollAccum, keys, isDragging,
                 lastTouches, lastTouchDist, cursor, frames, sinceReset, fps,
                 chunks, pushed, prevChunks, keyNudge, frameNo, aux, env>>

(* onMouseMove within the window of input events. *)
MouseMove(p) == Counted /\ onMouseMove(p)

(* onWheel: 0.006 per unit of deltaY *)
onWheel(deltaY) ==
  /\ scrollAccum' = scrollAccum + deltaY * ((6 * UNIT) \div 1000)
  /\ UNCHANGED <<camera, velocity, targetVel, keys, isDragging, lastMouse,
                 lastTouches, lastTouchDist, cursor, frames, sinceReset, fps,
                 chunks, pushed, prevChunks, keyNudge, frameNo, aux, env>>

(* onWheel within the window of input events. *)
Wheel(deltaY) == Counted /\ onWheel(deltaY)

(* Math.sqrt of a sum of squares of pixel differences, in pixels rounded
   down (the model's contacts have integer distances). *)
sqrt(n) == CHOOSE r \in 0..n : r * r <= n /\ n < (r + 1) * (r + 1)

(* getTouchDistance, lines 323-337 *)
getTouchDistance(touches) ==
  IF Len(touches) < 2 THEN 0
  ELSE LET dx == touches[1].clientX - touches[2].clientX
           dy == touches[1].clientY - touches[2].clientY
       IN  sqrt(dx * dx + dy * dy)

(* A pinch contribution with the distances exchanged. *)
pinchDelta_Reversed(last, dist) == (dist - last) * ((6 * UNIT) \div 1000)

(* (lastTouchDist.current - dist) * 0.006, line 416. *)
pinchDelta(last, dist) == (last - dist) * ((6 * UNIT) \div 1000)

(* onTouchStart *)
onTouchStart(touches) ==
  /\ contacts' = touches
  /\ lastTouches' = touches
  /\ lastTouchDist' = getTouchDistance(touches)
  /\ cursor' = "grabbing"
  /\ UNCHANGED <<camera, velocity, targetVel, scrollAccum, keys, isDragging,
                 lastMouse, frames, sinceReset, fps,
                 chunks, pushed, prevChunks, keyNudge, frameNo, aux, buttons>>

(* onTouchStart within the window of input events. *)
TouchStart(touches) == Counted /\ onTouchStart(touches)

(* onTouchMove: one contact pans at 0.02 per pixel, two contacts feed the
   scroll accumulator at 0.006 per pixel of distance change. *)
onTouchMove(touches) ==
  /\ contacts' = touches
  /\ IF Len(touches) = 1 /\ Len(lastTouches) >= 1
       THEN /\ targetVel' =
                 [targetVel EXCEPT
                    !.x = @ - (touches[1].clientX - lastTouches[1].clientX)
                                * ((2 * UNIT) \div 100),
                    !.y = @ + (touches[1].clientY - lastTouches[1].clientY)
                                * ((2 * UNIT) \div 100)]
            /\ lastTouches' = touches
            /\ UNCHANGED <<scrollAccum, lastTouchDist>>
       ELSE /\ IF Len(touches) = 2
                 THEN /\ scrollAccum' =
                           IF lastTouchDist > 0
                             THEN scrollAccum
                                    + pinchDelta(lastTouchDist, getTouchDistance(touches))
                             ELSE scrollAccum
                      /\ lastTouchDist' = getTouchDistance(touches)
                 ELSE UNCHANGED <<scrollAccum, lastTouchDist>>
            /\ lastTouches' = touches
            /\ UNCHANGED targetVel
  /\ UNCHANGED <<camera, velocity, keys, isDragging, lastMouse, cursor,
                 frames, sinceReset, fps, chunks, pushed, prevChunks, keyNudge, frameNo, aux, buttons>>

(* onTouchMove within the window of input events. *)
TouchMove(touches) == Counted /\ onTouchMove(touches)

(* onTouchEnd *)
onTouchEnd(touches) ==
  /\ contacts' = touches
  /\ lastTouches' = touches
  /\ lastTouchDist' = getTouchDistance(touches)
  /\ cursor' = "grab"
  /\ UNCHANGED <<camera, velocity, targetVel, scrollAccum, keys, isDragging,
                 lastMouse, frames, sinceReset, fps,
                 chunks, pushed, prevChunks, keyNudge, frameNo, aux, buttons>>

(* onTouchEnd within the window of input events. *)
TouchEnd(touches) == Counted /\ onTouchEnd(touches)

(***************************************************************************)
(* The frame callback, scene.tsx lines 456-571.                            *)
(***************************************************************************)
(* const speed = 0.18 *)
speed == (18 * UNIT) \div 100

(* A key phase written as one else-if chain: only the first held direction
   is applied. *)
keyPhase_FirstOnly(tv, k) ==
  IF "w" \in k \/ "arrowup" \in k THEN Vec(tv.x, tv.y, tv.z - speed)
  ELSE IF "s" \in k \/ "arrowdown" \in k THEN Vec(tv.x, tv.y, tv.z + speed)
  ELSE IF "a" \in k \/ "arrowleft" \in k THEN Vec(tv.x - speed, tv.y, tv.z)
  ELSE IF "d" \in k \/ "arrowright" \in k THEN Vec(tv.x + speed, tv.y, tv.z)
  ELSE IF "q" \in k THEN Vec(tv.x, tv.y - speed, tv.z)
  ELSE IF "e" \in k THEN Vec(tv.x, tv.y + speed, tv.z)
  ELSE IF " " \in k THEN Vec(tv.x, tv.y, tv.z - (speed * 15) \div 10)
  ELSE tv

(* The key phase, lines 467-496: seven independent ifs in sequence. *)
keyPhase(tv, k) ==
  LET z1 == IF "w" \in k \/ "arrowup" \in k THEN tv.z - speed ELSE tv.z
      z2 == IF "s" \in k \/ "arrowdown" \in k THEN z1 + speed ELSE z1
      x1 == IF "a" \in k \/ "arrowleft" \in k THEN tv.x - speed ELSE tv.x
      x2 == IF "d" \in k \/ "arrowright" \in k THEN x1 + speed ELSE x1
      y1 == IF "q" \in k THEN tv.y - speed ELSE tv.y
      y2 == IF "e" \in k THEN y1 + speed ELSE y1
      z3 == IF " " \in k THEN z2 - (speed * 15) \div 10 ELSE z2
  IN  Vec(x2, y2, z3)

(* A target velocity that is left as the events made it. *)
clampVel_None(tv) == tv

(* Lines 501-503. *)
clampVel(tv) ==
  Vec(clamp(tv.x, -MAX_VELOCITY, MAX_VELOCITY),
      clamp(tv.y, -MAX_VELOCITY, MAX_VELOCITY),
      clamp(tv.z, -MAX_VELOCITY, MAX_VELOCITY))

(* An easing with factor 1.16, which passes the target. *)
easeVel_Overshoot(v, tv) ==
  Vec(lerp(v.x, tv.x, 116), lerp(v.y, tv.y, 116), lerp(v.z, tv.z, 116))

(* Lines 505-507: lerp factor 0.16. *)
easeVel(v, tv) ==
  Vec(lerp(v.x, tv.x, 16), lerp(v.y, tv.y, 16), lerp(v.z, tv.z, 16))

(* Lines 513-515: targetVel *= 0.9. *)
decayVel(tv) ==
  Vec(MulDivTrunc(tv.x, 9, 10), MulDivTrunc(tv.y, 9, 10), MulDivTrunc(tv.z, 9, 10))

(* A scroll buffer that is never decayed. *)
decayScroll_Keep(s) == s

(* Lines 498-499: scrollAccum *= 0.8. *)
decayScroll(s) == MulDivTrunc(s, 8, 10)

(* A frame rate that is cut to an integer, never rounded up. *)
fpsOf_Floor(n, elapsed) == (n * 1000) \div elapsed

(* Math.round(frames / (elapsed / 1000)), elapsed in ms, halves rounded up. *)
fpsOf(n, elapsed) == (2 * n * 1000 + elapsed) \div (2 * elapsed)

(* The frame counter of the callback, lines 457-465, dt ms after the
   previous run: frames and the time since the last report. *)
FrameCount(dt) ==
  /\ frames' = IF sinceReset + dt >= 400 THEN 0 ELSE frames + 1
  /\ sinceReset' = IF sinceReset + dt >= 400 THEN 0 ELSE sinceReset + dt

(* One run of the callback, dt ms after the previous one. *)
FrameStep(dt) ==
  LET elapsed == sinceReset + dt
      report == elapsed >= 400
      tvKeys == keyPhase(targetVel, keys)
      tvScroll == [tvKeys EXCEPT !.z = @ + scrollAccum]
      tvClamped == clampVel(tvScroll)
      vel == easeVel(velocity, tvClamped)
      cam == Vec(camera.x + vel.x, camera.y + vel.y, camera.z + vel.z)
      cx == chunkCoord(cam.x)
      cy == chunkCoord(cam.y)
      cz == chunkCoord(cam.z)
  IN  /\ FrameCount(dt)
      /\ fps' = IF report THEN fpsOf(frames + 1, elapsed) ELSE fps
      /\ scrollAccum' = decayScroll(scrollAccum)
      /\ velocity' = vel
      /\ camera' = cam
      /\ targetVel' = decayVel(tvClamped)
      /\ \E steps \in {chunkSteps(chunks, cx, cy, cz, cam.z)} :
           /\ chunks' = nextChunks(steps, cx, cy, cz)
           /\ pushed' = Cardinality(pushedOf(steps))
      /\ prevChunks' = chunks
      /\ keyNudge' = Vec(tvKeys.x - targetVel.x, tvKeys.y - targetVel.y,
                         tvKeys.z - targetVel.z)
      /\ frameNo' = MinOf(frameNo + 1, MaxFrames)
      /\ UNCHANGED <<keys, isDragging, lastMouse, lastTouches, lastTouchDist,
                     cursor, events, aux, env>>

Frame == frameNo < MaxFrames /\ \E dt \in FrameDts : FrameStep(dt)

(***************************************************************************)
(* Spec: the controller driven by any input events between frames.         *)
(***************************************************************************)
(* The inputs of Spec: enough to move the camera along every axis, slowly
   (held keys), fast (a long drag) and by impulses (wheel, touch pan). *)
SpecKeys == {"a", "W", " "}
SpecMouseDown == {Pt(0, 0)}
SpecMouseMove == {Pt(300, -40)}
SpecWheel == {100}
SpecTouchStart == {<<Pt(0, 0)>>}
SpecTouchMove == {<<Pt(30, 40)>>}
SpecTouchEnd == {<<>>}

Next ==
  \/ \E key \in SpecKeys : KeyDown(key)
  \/ \E key \in SpecKeys : KeyUp(key)
  \/ \E p \in SpecMouseDown : MouseDown(p, 0)
  \/ MouseUp(0)
  \/ \E p \in SpecMouseMove : MouseMove(p)
  \/ \E deltaY \in SpecWheel : Wheel(deltaY)
  \/ \E t \in SpecTouchStart : TouchStart(t)
  \/ \E t \in SpecTouchMove : TouchMove(t)
  \/ \E t \in SpecTouchEnd : TouchEnd(t)
  \/ Frame

Spec == Init /\ [][Next]_vars

(***************************************************************************)
(* Vocabulary of the claims about the active chunk set.                    *)
(***************************************************************************)
(* The camera's current chunk, lines 518-520. *)
camChunk == <<chunkCoord(camera.x), chunkCoord(camera.y), chunkCoord(camera.z)>>

(* Chebyshev distance of two chunk coordinates. *)
Cheb(k, c) == MaxOf(Abs(k[1] - c[1]), MaxOf(Abs(k[2] - c[2]), Abs(k[3] - c[3])))

(* The chunk coordinates within Chebyshev distance d of c. *)
Cube(c, d) ==
  {<<c[1] + dx, c[2] + dy, c[3] + dz>> : dx \in -d..d, dy \in -d..d, dz \in -d..d}

(* Target visibility of chunk k for the camera of this state: the minimum
   of the grid ramp and the depth ramp (0 beyond the enumerated cube). *)
TargetOf(k) ==
  MinOf(gridTarget(Cheb(k, camChunk)),
        depthTarget(Abs(chunkCenterZ(k[3]) - camera.z)))

(* Visibility of chunk k in a chunk list, 0 when it is not in the list. *)
VisIn(list, k) == IF k \in DOMAIN list THEN list[k].visibility ELSE 0

(* The value the last frame's easing gave chunk k: kept if k is active,
   otherwise the value it was dropped with. *)
EasedOf(k) ==
  IF k \in DOMAIN chunks THEN chunks[k].visibility
  ELSE lerp(VisIn(prevChunks, k), TargetOf(k), VISIBILITY_LERP)

Negligible == UNIT \div 100

(* C1: a chunk that was active before the last frame step and is not active
   after it had target visibility exactly 0 in that step and an eased
   visibility below 0.01; this covers the chunks that left the cube of
   offsets because the camera changed chunk. *)
C1_NoPop ==
  frameNo > 0 =>
    \A k \in DOMAIN prevChunks \ DOMAIN chunks :
      /\ TargetOf(k) = 0
      /\ lerp(prevChunks[k].visibility, TargetOf(k), VISIBILITY_LERP) < Negligible

(* A chunk still in the cube, which the frame before had left at 0.01 or
   more, was retired by the last frame. *)
C1_Witness ==
  /\ frameNo > 0
  /\ \E k \in DOMAIN prevChunks \ DOMAIN chunks :
       prevChunks[k].visibility >= Negligible /\ Cheb(k, camChunk) <= MAX_DIST

(* A chunk was retired by the last frame because it left the cube. *)
C1_WitnessLeftCube ==
  /\ frameNo > 0
  /\ \E k \in DOMAIN prevChunks \ DOMAIN chunks : Cheb(k, camChunk) > MAX_DIST

(* C2: every active chunk's visibility is in [0, 1], in the seeded set and
   after every frame, whatever input events arrive between frames. *)
C2_VisibilityBounds ==
  \A k \in DOMAIN chunks : 0 <= chunks[k].visibility /\ chunks[k].visibility <= UNIT

(* After touch, mouse or wheel input and a frame, some chunk is partly
   visible. *)
C2_Witness ==
  /\ frameNo > 0
  /\ velocity # Vec(0, 0, 0)
  /\ \E k \in DOMAIN chunks : 0 < chunks[k].visibility /\ chunks[k].visibility < UNIT

(* C3: in a frame step the visibility of every active chunk moves from its
   previous value (0 for a chunk that was not active) by 0.18 of its distance
   to the target, so by at most 0.18. *)
C3_Eased ==
  frameNo > 0 =>
    \A k \in DOMAIN chunks :
      LET old == VisIn(prevChunks, k)
          new == chunks[k].visibility
      IN  /\ Abs(new - old) = MulDivAway(Abs(TargetOf(k) - old), VISIBILITY_LERP, 100)
          /\ Abs(new - old) <= (VISIBILITY_LERP * UNIT) \div 100

(* The camera has changed chunk and a chunk that was not active entered the
   set with a full easing step. *)
C3_Witness ==
  /\ frameNo > 0
  /\ camChunk # <<0, 0, 0>>
  /\ \E k \in DOMAIN chunks \ DOMAIN prevChunks :
       chunks[k].visibility = (VISIBILITY_LERP * UNIT) \div 100

(* C5 as stated: in every state, the seeded one included, a chunk is active
   iff it is within Chebyshev distance 3 of the camera's chunk and its target
   visibility is positive or its eased visibility is at least 0.01. *)
ActiveIffRelevant ==
  \A k \in Cube(camChunk, MAX_DIST + 1) \cup DOMAIN chunks :
    k \in DOMAIN chunks <=>
      /\ Cheb(k, camChunk) <= MAX_DIST
      /\ (TargetOf(k) > 0 \/ EasedOf(k) >= Negligible)

C5_AsStated == ActiveIffRelevant

(* C5 amended: the equivalence holds in every state after a frame step; the
   seeded set holds every offset of the cube, also those with visibility 0. *)
C5_ActiveAfterFrame == frameNo > 0 => ActiveIffRelevant

(* After a frame a chunk is active only because its target is positive, its
   eased value still being below 0.01, and a chunk of the cube is not
   active. *)
C5_Witness ==
  /\ frameNo > 0
  /\ \E k \in DOMAIN chunks : TargetOf(k) > 0 /\ chunks[k].visibility < Negligible
  /\ \E k \in Cube(camChunk, MAX_DIST) : k \notin DOMAIN chunks

(* C6: the seeded set has one chunk per offset of Chebyshev distance <= 3
   (7*7*7 = 343), each with the steady-state target visibility evaluated for
   a camera at the origin, and chunk (0,0,0) has visibility 1. *)
C6_Seed ==
  frameNo = 0 =>
    /\ pushed = 7 * 7 * 7
    /\ DOMAIN chunks = Cube(<<0, 0, 0>>, RENDER_DISTANCE + CHUNK_FADE_MARGIN)
    /\ Cardinality(DOMAIN chunks) = pushed
    /\ \A k \in DOMAIN chunks :
         /\ chunks[k].key = k
         /\ chunks[k].visibility =
              targetVisibility([dx |-> k[1], dy |-> k[2], dz |-> k[3],
                                dist |-> Cheb(k, <<0, 0, 0>>)], 0, 0)
    /\ chunks[<<0, 0, 0>>].visibility = UNIT

(* The seeded set, before any frame, with chunks at 1, at 0 and between. *)
C6_Witness ==
  /\ frameNo = 0
  /\ pushed = 7 * 7 * 7
  /\ \E k \in DOMAIN chunks : 0 < chunks[k].visibility /\ chunks[k].visibility < UNIT
  /\ \E k \in DOMAIN chunks : chunks[k].visibility = 0

(***************************************************************************)
(* LiveSpec: the frame callback runs at every animation frame, for ever    *)
(* (useFrame, scene.tsx line 456, in the canvas's render loop). The inputs *)
(* are those whose effect ends by itself (drag, wheel, touch): a key held  *)
(* for ever moves the camera for ever.                                     *)
(*                                                                         *)
(* The callback has no guard, and each run of it changes its frame         *)
(* counter, which no handler touches: the steps that change the counter as *)
(* FrameCount does are exactly the runs of the callback, so the weak       *)
(* fairness of the callback is stated on its counter.                      *)
(***************************************************************************)
LiveFrame == \E dt \in FrameDts : FrameStep(dt)

LiveNext ==
  \/ \E p \in SpecMouseDown : MouseDown(p, 0)
  \/ MouseUp(0)
  \/ \E p \in SpecMouseMove : MouseMove(p)
  \/ \E deltaY \in SpecWheel : Wheel(deltaY)
  \/ \E t \in SpecTouchStart : TouchStart(t)
  \/ \E t \in SpecTouchMove : TouchMove(t)
  \/ \E t \in SpecTouchEnd : TouchEnd(t)
  \/ LiveFrame

LiveSpec ==
  /\ Init
  /\ [][LiveNext]_vars
  /\ WF_<<frames, sinceReset>>(\E dt \in FrameDts : FrameCount(dt))

(* C4: a chunk whose target visibility is 0 from some frame on is, after
   finitely many frames, absent from the active set, and a chunk enters the
   active set only in a step that leaves its target positive, so an absent
   chunk stays absent while its target is 0. The first part is stated for
   all chunks at once: from some frame on no chunk with target 0 is active.
   In LiveSpec the input ends, so each chunk's target is from some frame on
   0 for ever or positive for ever; for the former this is its retirement. *)
C4_Retirement ==
  /\ <>[](\A k \in DOMAIN chunks : TargetOf(k) > 0)
  /\ [][\A k \in DOMAIN chunks' \ DOMAIN chunks : TargetOf(k)' > 0]_vars

(* A chunk that was seeded fully visible has target 0 and has been retired. *)
C4_Witness ==
  /\ frameNo > 0
  /\ \E k \in Cube(<<0, 0, 0>>, RENDER_DISTANCE) :
       /\ seedVisibility([dx |-> k[1], dy |-> k[2], dz |-> k[3],
                          dist |-> Cheb(k, <<0, 0, 0>>)]) = UNIT
       /\ TargetOf(k) = 0
       /\ k \notin DOMAIN chunks

(***************************************************************************)
(* The media texture cache, scene.tsx lines 90-131.                        *)
(***************************************************************************)
(* Calls of getTexture and generateChunkPlanes in one behaviour. *)
MaxCalls == 4

(* MediaItem values: three URLs, each asked for as an image or as a video. *)
MediaUrls == {"a.jpg", "b.mp4", "c.png"}
MediaItems == [url : MediaUrls, type : {"image", "video"}]

(* A map that always misses. *)
mapHas_Never(map, key) == FALSE

(* Whether map.get(key) is an object (truthy): textureCache.get(item.url),
   line 95, and videoElements.get(item.url), line 102. *)
mapHas(map, key) == key \in DOMAIN map

(* map.set(key, value) *)
mapSet(map, key, value) ==
  [k \in DOMAIN map \cup {key} |-> IF k = key THEN value ELSE map[k]]

(* History: texture appended to the textures returned for url. *)
noteReturn(url, texture) ==
  mapSet(returned, url,
         (IF url \in DOMAIN returned THEN returned[url] ELSE <<>>) \o <<texture>>)

(* History: one more underlying load (a TextureLoader load or a new video
   element) for url. *)
noteLoad(url) ==
  mapSet(loads, url, (IF url \in DOMAIN loads THEN loads[url] ELSE 0) + 1)

(* getTexture(item). Each object created gets the next identity. *)
getTexture(item) ==
  /\ genCalls < MaxCalls
  /\ genCalls' = genCalls + 1
  /\ IF mapHas(textureCache, item.url)
       THEN /\ returned' = noteReturn(item.url, textureCache[item.url])
            /\ UNCHANGED <<textureCache, videoElements, objects, loads>>
     ELSE IF item.type = "video"
       THEN LET created == ~mapHas(videoElements, item.url)
                video == IF created
                           THEN [id |-> objects + 1, src |-> item.url]
                           ELSE videoElements[item.url]
                made == IF created THEN objects + 1 ELSE objects
                texture == [id |-> made + 1, kind |-> "VideoTexture",
                            image |-> video.id]
            IN  /\ videoElements' =
                     IF created THEN mapSet(videoElements, item.url, video)
                     ELSE videoElements
                /\ loads' = IF created THEN noteLoad(item.url) ELSE loads
                /\ textureCache' = mapSet(textureCache, item.url, texture)
                /\ objects' = made + 1
                /\ returned' = noteReturn(item.url, texture)
       ELSE LET texture == [id |-> objects + 1, kind |-> "Texture",
                            image |-> item.url]
            IN  /\ loads' = noteLoad(item.url)
                /\ textureCache' = mapSet(textureCache, item.url, texture)
                /\ objects' = objects + 1
                /\ returned' = noteReturn(item.url, texture)
                /\ UNCHANGED videoElements

(* A call of getTexture that no surface keeps. *)
GetTexture(item) ==
  /\ getTexture(item)
  /\ UNCHANGED <<ctl, chunks, pushed, hist, genVars, surfVars>>

(* CacheSpec: any sequence of getTexture calls, from any surfaces. *)
CacheNext == \E item \in MediaItems : GetTexture(item)

CacheSpec == Init /\ [][CacheNext]_vars

(* C7: every call of getTexture for a URL returns the texture the first call
   for that URL returned, which is the cached one; one underlying load is
   started per URL asked for; and an entry of either map, once set, is
   neither replaced nor removed. *)
C7_CacheDedup ==
  /\ [](\A url \in DOMAIN returned :
          /\ \A i \in 1..Len(returned[url]) : returned[url][i] = returned[url][1]
          /\ url \in DOMAIN textureCache /\ textureCache[url] = returned[url][1]
          /\ url \in DOMAIN loads /\ loads[url] = 1)
  /\ [](DOMAIN loads = DOMAIN returned /\ DOMAIN textureCache = DOMAIN returned)
  /\ [][/\ \A url \in DOMAIN textureCache :
             url \in DOMAIN textureCache' /\ textureCache'[url] = textureCache[url]
        /\ \A url \in DOMAIN videoElements :
             url \in DOMAIN videoElements' /\ videoElements'[url] = videoElements[url]]_vars

(* One URL has been asked for three times, another, a video, is cached
   too. *)
C7_Witness ==
  \E u1, u2 \in DOMAIN returned :
    /\ u1 # u2
    /\ Len(returned[u1]) >= 3
    /\ textureCache[u2].kind = "VideoTexture"

(***************************************************************************)
(* Placement generation, scene.tsx lines 52-66 and 134-157.                *)
(*                                                                         *)
(* A string is the sequence of its UTF-16 code units. The hash and the     *)
(* seeds, which pass 2^31, are held as <<hi, lo>> with value hi * 2^16 +   *)
(* lo, 0 <= lo < 2^16.                                                     *)
(***************************************************************************)
Half == 65536

(* String(n) for an integer n: its decimal digits after a '-' for n < 0. *)
RECURSIVE digits(_)
digits(n) == IF n < 10 THEN <<48 + n>> ELSE digits(n \div 10) \o <<48 + (n % 10)>>
numberToString(n) == IF n < 0 THEN <<45>> \o digits(-n) ELSE digits(n)

(* `${cx},${cy},${cz}` *)
chunkKeyString(cx, cy, cz) ==
  numberToString(cx) \o <<44>> \o numberToString(cy) \o <<44>> \o numberToString(cz)

(* `${cx}-${cy}-${cz}-${i}` *)
planeId(cx, cy, cz, i) ==
  numberToString(cx) \o <<45>> \o numberToString(cy) \o <<45>>
    \o numberToString(cz) \o <<45>> \o numberToString(i)

(* h = ((h << 5) - h + c) | 0: 31 * h + c modulo 2^32, h held as the unsigned
   32-bit number with the bits of the int32. *)
hashStep(h, c) ==
  LET lo == h[2] * 31 + c
  IN  <<(h[1] * 31 + lo \div Half) % Half, lo % Half>>

(* The loop of hashString over the first n code units of str. *)
RECURSIVE hashLoop(_, _)
hashLoop(str, n) == IF n = 0 THEN <<0, 0>> ELSE hashStep(hashLoop(str, n - 1), str[n])

(* An absolute value kept in 32 bits: that of -2^31 is -2^31 again. *)
absInt32_Wrapped(h) ==
  IF h[1] < Half \div 2 THEN h
  ELSE IF h[2] = 0
         THEN IF h[1] = Half \div 2 THEN <<-(Half \div 2), 0>> ELSE <<Half - h[1], 0>>
  ELSE <<Half - 1 - h[1], Half - h[2]>>

(* Math.abs of the int32 whose bits are h: 2^32 - h when the sign bit is
   set. Math.abs works on doubles, so that of -2^31 is 2^31. *)
absInt32(h) ==
  IF h[1] < Half \div 2 THEN h
  ELSE IF h[2] = 0 THEN <<Half - h[1], 0>>
  ELSE <<Half - 1 - h[1], Half - h[2]>>

(* hashString(str) *)
hashString(str) == absInt32(hashLoop(str, Len(str)))

(* A call of hashString, as the history keeps it. *)
hashCall(str) == [str |-> str, h |-> hashString(str)]

(* seed + k for a small k >= 0 (seed + i * 1000, s + n). *)
seedPlus(seed, k) == <<seed[1] + (seed[2] + k) \div Half, (seed[2] + k) % Half>>

(* A generator that also reads how often it was called before. *)
seededRandom_Counting(seed) ==
  ((((seed[1] * 31 + seed[2] + genCalls) % 9973) * 9999) + 4177) % UNIT

(* seededRandom(seed): the fraction of Math.sin(seed * 9999) * 10000. The
   sine is stood for by a fixed scrambling of the same argument: what is
   kept is that the result is a number of [0, 1) that the seed alone
   determines, and that seeds that differ mostly give different results. *)
seededRandom(seed) ==
  ((((seed[1] * 31 + seed[2]) % 9973) * 9999) + 4177) % UNIT

(* One placement: the body of the loop, lines 139-153; r(n) is
   seededRandom(s + n). Positions and sizes in fixed point. *)
plane(cx, cy, cz, mediaCount, seed, i) ==
  LET s == seedPlus(seed, i * 1000)
      size == 12 * UNIT + seededRandom(seedPlus(s, 4)) * 8
  IN  [id |-> planeId(cx, cy, cz, i),
       position |-> Vec(cx * CHUNK_SIZE * UNIT + seededRandom(seedPlus(s, 0)) * CHUNK_SIZE,
                        cy * CHUNK_SIZE * UNIT + seededRandom(seedPlus(s, 1)) * CHUNK_SIZE,
                        cz * CHUNK_SIZE * UNIT + seededRandom(seedPlus(s, 2)) * CHUNK_SIZE),
       scale |-> Vec(size, size, UNIT),
       mediaIndex |-> (seededRandom(seedPlus(s, 5)) * mediaCount) \div UNIT]

(* generateChunkPlanes(cx, cy, cz, mediaCount) *)
generateChunkPlanes(cx, cy, cz, mediaCount) ==
  LET seed == hashString(chunkKeyString(cx, cy, cz))
  IN  [n \in 1..ITEMS_PER_CHUNK |-> plane(cx, cy, cz, mediaCount, seed, n - 1)]

(* History: a call of generateChunkPlanes from a Chunk (line 287). The
   first result for each argument list is kept, and the last call with its
   result and whether its arguments had been used before. *)
Generate(cx, cy, cz, mediaCount) ==
  /\ genCalls < MaxCalls
  /\ genCalls' = genCalls + 1
  /\ \E planes \in {generateChunkPlanes(cx, cy, cz, mediaCount)} :
       /\ lastGen' = [args |-> <<cx, cy, cz, mediaCount>>, planes |-> planes,
                      repeat |-> <<cx, cy, cz, mediaCount>> \in DOMAIN genLog]
       /\ genLog' = IF <<cx, cy, cz, mediaCount>> \in DOMAIN genLog THEN genLog
                    ELSE mapSet(genLog, <<cx, cy, cz, mediaCount>>, planes)
  /\ hashed' = hashCall(chunkKeyString(cx, cy, cz))
  /\ UNCHANGED <<ctl, chunks, pushed, hist, cacheVars, surfVars>>

(* GenSpec: chunks generate their placements at any time, between frames,
   wheel events and texture requests. *)
GenFrames == 2
GenArgs == {<<0, 0, 0, 7>>, <<-1, 2, -10, 7>>, <<-1, 2, -10, 1>>, <<12, -3, 3, 7>>}
GenItems == {[url |-> "a.jpg", type |-> "image"], [url |-> "b.mp4", type |-> "video"]}

GenNext ==
  \/ \E a \in GenArgs : Generate(a[1], a[2], a[3], a[4])
  \/ \E item \in GenItems : GetTexture(item)
  \/ \E deltaY \in SpecWheel : Wheel(deltaY)
  \/ frameNo < GenFrames /\ LiveFrame

GenSpec == Init /\ [][GenNext]_vars

(* C8: generateChunkPlanes returns ITEMS_PER_CHUNK = 5 placements, and for
   given (cx, cy, cz, mediaCount) the same list (ids, positions, sizes, media
   slots) at every call and in every state, whatever calls, frames and cache
   activity came before. *)
C8_Deterministic ==
  /\ \A a \in DOMAIN genLog :
       /\ generateChunkPlanes(a[1], a[2], a[3], a[4]) = genLog[a]
       /\ DOMAIN genLog[a] = 1..ITEMS_PER_CHUNK
       /\ \A n \in 1..ITEMS_PER_CHUNK :
            genLog[a][n].id = planeId(a[1], a[2], a[3], n - 1)
  /\ DOMAIN genLog # {} =>
       /\ lastGen.args \in DOMAIN genLog
       /\ lastGen.planes = genLog[lastGen.args]

(* Arguments used before were used again after other calls, a frame and a
   texture request. *)
C8_Witness ==
  /\ DOMAIN genLog # {}
  /\ lastGen.repeat
  /\ Cardinality(DOMAIN genLog) >= 2
  /\ frameNo > 0
  /\ DOMAIN textureCache # {}

(***************************************************************************)
(* Keyboard and coasting.  KeySpec presses and releases every key the      *)
(* listeners can see, turns the wheel both ways, and runs the frame        *)
(* callback KeyFrames times.                                               *)
(***************************************************************************)
KeyFrames == 4

KeyFrame == frameNo < KeyFrames /\ LiveFrame

KeyNext ==
  \/ \E key \in RawKeys : KeyDown(key)
  \/ \E key \in RawKeys : KeyUp(key)
  \/ \E deltaY \in WheelDeltas : Wheel(deltaY)
  \/ KeyFrame

KeySpec == Init /\ [][KeyNext]_vars

(* A step of the frame callback: it is the only writer of the fps window. *)
FrameTaken == sinceReset' # sinceReset

(* The increment of one key name, lines 469-495; other keys give none. *)
keyDelta(key) ==
  CASE key \in {"w", "arrowup"} -> Vec(0, 0, -speed)
    [] key \in {"s", "arrowdown"} -> Vec(0, 0, speed)
    [] key \in {"a", "arrowleft"} -> Vec(-speed, 0, 0)
    [] key \in {"d", "arrowright"} -> Vec(speed, 0, 0)
    [] key = "q" -> Vec(0, -speed, 0)
    [] key = "e" -> Vec(0, speed, 0)
    [] key = " " -> Vec(0, 0, -((speed * 15) \div 10))
    [] OTHER -> Vec(0, 0, 0)

(* The key names tested by one if of the key phase. *)
KeyGroups ==
  {{"w", "arrowup"}, {"s", "arrowdown"}, {"a", "arrowleft"},
   {"d", "arrowright"}, {"q"}, {"e"}, {" "}}

RECURSIVE SumVec(_)
(* The sum of the vectors of a function with a finite domain. *)
SumVec(f) ==
  IF DOMAIN f = {} THEN Vec(0, 0, 0)
  ELSE LET k == CHOOSE j \in DOMAIN f : TRUE
           r == SumVec([j \in DOMAIN f \ {k} |-> f[j]])
       IN  Vec(f[k].x + r.x, f[k].y + r.y, f[k].z + r.z)

(* C9 as stated: in every frame the change the key phase applies to the
   target velocity is the sum of the increments of every held key, each key
   counted whatever other keys are held. *)
C9_AsStated ==
  [][FrameTaken => keyNudge' = SumVec([key \in keys |-> keyDelta(key)])]_vars

(* C9: in every frame the change the key phase applies to the target velocity
   is the sum, over the seven directions W/ArrowUp, S/ArrowDown, A/ArrowLeft,
   D/ArrowRight, Q, E and Space, of the direction's increment if at least one
   of its keys is held; two keys of one direction held together count once. *)
C9_DirectionsAdditive ==
  [][FrameTaken =>
       keyNudge' = SumVec([g \in {h \in KeyGroups : h \cap keys # {}} |->
                            keyDelta(CHOOSE key \in g : TRUE)])]_vars

(* A frame has run with W and D held: it changed the lateral axis by +0.18
   and the forward axis by -0.18. *)
C9_Witness ==
  /\ frameNo > 0
  /\ keys = {"w", "d"}
  /\ keyNudge = Vec(speed, 0, -speed)

(* Two numbers that do not have opposite signs. *)
Agrees(a, b) == Sign(a) * Sign(b) >= 0

(* A frame with no key held. *)
Coasting == keys = {} /\ FrameTaken

(* The target the velocity is eased toward in a frame, lines 498-503. *)
easeTarget ==
  clampVel(Vec(targetVel.x, targetVel.y, targetVel.z + scrollAccum))

Between(v, a, b) == MinOf(a, b) <= v /\ v <= MaxOf(a, b)

Shrinks(new, old) == IF old = 0 THEN new = 0 ELSE Abs(new) < Abs(old)

(* C10 as stated, the part about signs: in every frame with no key held no
   axis of the velocity changes to the opposite sign. *)
C10_AsStated ==
  [][Coasting =>
       /\ Agrees(velocity.x, velocity'.x)
       /\ Agrees(velocity.y, velocity'.y)
       /\ Agrees(velocity.z, velocity'.z)]_vars

(* What is pending on an axis at a frame does not oppose the velocity. *)
AgreeX == Agrees(velocity.x, targetVel.x)
AgreeY == Agrees(velocity.y, targetVel.y)
AgreeZ ==
  /\ Agrees(velocity.z, targetVel.z)
  /\ Agrees(velocity.z, scrollAccum)
  /\ Agrees(targetVel.z, scrollAccum)

(* C10: in every frame with no key held, each axis of the velocity moves
   toward its target and never past it, the target velocity and the scroll
   accumulator shrink in magnitude until they are 0 (so the velocity
   converges to 0 when no input arrives), and an axis whose velocity is not
   opposed by the pending target velocity and scroll keeps its sign and stays
   unopposed in the next frame. *)
C10_Coasting ==
  [][Coasting =>
       /\ Between(velocity'.x, velocity.x, easeTarget.x)
       /\ Between(velocity'.y, velocity.y, easeTarget.y)
       /\ Between(velocity'.z, velocity.z, easeTarget.z)
       /\ velocity.x # easeTarget.x => velocity'.x # velocity.x
       /\ velocity.y # easeTarget.y => velocity'.y # velocity.y
       /\ velocity.z # easeTarget.z => velocity'.z # velocity.z
       /\ Shrinks(targetVel'.x, easeTarget.x)
       /\ Shrinks(targetVel'.y, easeTarget.y)
       /\ Shrinks(targetVel'.z, easeTarget.z)
       /\ Shrinks(scrollAccum', scrollAccum)
       /\ AgreeX => Agrees(velocity.x, velocity'.x) /\ AgreeX'
       /\ AgreeY => Agrees(velocity.y, velocity'.y) /\ AgreeY'
       /\ AgreeZ => Agrees(velocity.z, velocity'.z) /\ AgreeZ']_vars

(* W was held and released, and frames with no key held have run since: the
   camera still moves forward, more slowly than its target at release. *)
C10_Witness ==
  /\ frameNo >= 3
  /\ keys = {}
  /\ keyNudge = Vec(0, 0, 0)
  /\ scrollAccum = 0
  /\ velocity.z < 0
  /\ targetVel.z < 0
  /\ targetVel.z > -((speed * 8) \div 10)

(***************************************************************************)
(* Wheel smoothing.  WheelSpec turns the wheel once by deltaY = 100 while  *)
(* the camera is at rest and lets the frame callback run for ever; the     *)
(* callback is weakly fair, stated on its frame counter as in LiveSpec.    *)
(***************************************************************************)
AtRest ==
  /\ velocity = Vec(0, 0, 0)
  /\ targetVel = Vec(0, 0, 0)
  /\ scrollAccum = 0

WheelOnce == events = 0 /\ AtRest /\ Wheel(100)

WheelNext ==
  \/ WheelOnce
  \/ LiveFrame

WheelSpec ==
  /\ Init
  /\ [][WheelNext]_vars
  /\ WF_<<frames, sinceReset>>(\E dt \in FrameDts : FrameCount(dt))

(* The displacement 100 * 0.006 / ((1 - 0.8) * (1 - 0.9)) = 30 the real-valued
   recurrence converges to: the targets sum to 0.6 / 0.2 / 0.1 and the eased
   velocities sum to the same value, whatever the easing factor. *)
WheelLimit == (100 * ((6 * UNIT) \div 1000) * 10 * 10) \div (2 * 1)

(* The rounding of the fixed-point steps: each of some ninety frames drops up
   to one ten-thousandth in either decay, and the sum of the targets
   multiplies what the decays drop by ten. *)
WheelTolerance == UNIT \div 5

(* C11: after one wheel event of deltaY = 100 at rest, the displacement along z
   of every frame is non-negative, the camera never gets further than the
   limit 30 from its start, it comes to rest within a fifth of a unit of that
   limit, and every frame adds the scroll buffer to the forward target once
   and then multiplies the buffer by 0.8. *)
C11_WheelSmoothing ==
  /\ [](velocity.z >= 0 /\ camera.z - 50 * UNIT <= WheelLimit)
  /\ [][FrameTaken =>
          /\ camera'.z - camera.z = velocity'.z
          /\ camera'.z >= camera.z
          /\ targetVel'.z =
               MulDivTrunc(clamp(targetVel.z + scrollAccum, -MAX_VELOCITY, MAX_VELOCITY),
                           9, 10)
          /\ scrollAccum' = MulDivTrunc(scrollAccum, 8, 10)]_vars
  /\ (<>(events > 0)) =>
       <>[](/\ AtRest
            /\ WheelLimit - (camera.z - 50 * UNIT) <= WheelTolerance)

(* The wheel was turned and the camera has come to rest near the limit. *)
C11_Witness ==
  /\ events = 1
  /\ AtRest
  /\ camera.z > 50 * UNIT + WheelLimit - WheelTolerance
  /\ camera.x = 0 /\ camera.y = 0

(***************************************************************************)
(* MediaPlane, scene.tsx lines 160-271.                                    *)
(*                                                                         *)
(* A texture is named by its URL (getTexture returns the cached texture of *)
(* the URL).  A VideoTexture has its video element as image from the       *)
(* start; THREE.TextureLoader().load returns a texture whose image is set  *)
(* when the load has completed.  An action is a render with the effects it *)
(* schedules and the renders these cause, up to the next event.            *)
(***************************************************************************)
(* The media each surface can be given. *)
SurfItems ==
  {[url |-> "a.jpg", type |-> "image"], [url |-> "b.mp4", type |-> "video"],
   [url |-> "c.png", type |-> "image"]}

(* naturalWidth / naturalHeight or videoWidth / videoHeight of the loaded
   medium, pixels; c.png has no intrinsic size. *)
NaturalSize(url) ==
  CASE url = "a.jpg" -> <<400, 300>>
    [] url = "b.mp4" -> <<160, 90>>
    [] OTHER -> <<0, 0>>

(* plane.scale.y of the surface, line 151: 12 + r * 8. *)
BaseSize(s) == IF s = 1 THEN 12 * UNIT ELSE 18 * UNIT

(* The visibility prop, line 299. *)
SurfVis == {UNIT \div 2, UNIT}

(* tex.image, lines 182 and 217. *)
imageOf(cache, ld, url) ==
  IF cache[url].kind = "VideoTexture" THEN "HTMLVideoElement"
  ELSE IF url \in ld THEN "HTMLImageElement"
  ELSE "undefined"

(* getMediaDimensions, lines 72-88; <<0, 0>> stands for undefined as well. *)
getMediaDimensions(cache, ld, url) ==
  IF imageOf(cache, ld, url) = "undefined" \/ url \notin ld THEN <<0, 0>>
  ELSE NaturalSize(url)

(* The body of the displayScale memo, lines 177-191. *)
displayScale(scale, cache, ld, texture) ==
  IF texture = "none" THEN <<scale, scale>>
  ELSE LET d == getMediaDimensions(cache, ld, texture)
       IN  IF d[1] = 0 \/ d[2] = 0 THEN <<scale, scale>>
           ELSE <<(scale * d[1]) \div d[2], scale>>

(* Whether the readiness effect calls markReady at once, lines 224-258; an
   image element exists only once loaded, so it is complete. *)
readyAtOnce(cache, ld, url) ==
  LET el == imageOf(cache, ld, url)
      d == getMediaDimensions(cache, ld, url)
  IN  CASE el = "HTMLImageElement" -> d[1] > 0 /\ d[2] > 0
        [] el = "HTMLVideoElement" -> d[1] > 0 /\ d[2] > 0
        [] OTHER -> TRUE

(* A cleanup that leaves the listener registered. *)
cleanup_Keep(rec) == rec

(* The cleanup the readiness effect returns, lines 234-236 and 250-252. *)
cleanup(rec) ==
  [rec EXCEPT !.listeners = @ \ {rec.media.url},
              !.removed = @ \cup (rec.listeners \cap {rec.media.url})]

(* The readiness effect for media item (lines 204-259), the render caused by
   setTexture (the memo is recomputed when the texture changed, line 191) and
   the paint effect (lines 193-202). *)
readinessEffect(rec, item, cache, ld, scale) ==
  LET ready == readyAtOnce(cache, ld, item.url)
  IN  [mounted |-> TRUE, media |-> item, texture |-> item.url,
       isReady |-> ready, readyRef |-> ready,
       listeners |-> IF ready THEN rec.listeners ELSE rec.listeners \cup {item.url},
       opacity |-> IF ready THEN rec.visibility ELSE 0,
       visibility |-> rec.visibility,
       displayScale |-> IF rec.texture = item.url THEN rec.displayScale
                        ELSE displayScale(scale, cache, ld, item.url),
       removed |-> rec.removed]

(* markReady from a load handler (lines 219-222, 228-230, 244-246; the
   listener is once), and the render and paint effect it causes.  setIsReady
   on an unmounted instance does nothing. *)
markReady(rec, url) ==
  IF rec.mounted
    THEN [rec EXCEPT !.isReady = TRUE, !.readyRef = TRUE,
                     !.listeners = @ \ {url},
                     !.opacity = IF rec.texture # "none" THEN rec.visibility ELSE @]
    ELSE [rec EXCEPT !.readyRef = TRUE, !.listeners = @ \ {url}]

(* A MediaPlane is mounted with media item and visibility v. *)
Mount(s, item, v) ==
  /\ ~surfaces[s].mounted
  /\ getTexture(item)
  /\ surfaces' = [surfaces EXCEPT ![s] =
       readinessEffect([surfaces[s] EXCEPT !.visibility = v,
                                           !.displayScale = <<BaseSize(s), BaseSize(s)>>],
                       item, textureCache', loaded, BaseSize(s))]
  /\ UNCHANGED <<ctl, chunks, pushed, hist, genVars, loaded, rendered>>

(* The media prop changes: cleanup of the last effect, then the effect. *)
ChangeMedia(s, item) ==
  /\ surfaces[s].mounted
  /\ surfaces[s].media # item
  /\ getTexture(item)
  /\ surfaces' = [surfaces EXCEPT ![s] =
       readinessEffect(cleanup(surfaces[s]), item, textureCache', loaded, BaseSize(s))]
  /\ UNCHANGED <<ctl, chunks, pushed, hist, genVars, loaded, rendered>>

(* The MediaPlane is unmounted: cleanup; its state is gone. *)
Unmount(s) ==
  /\ surfaces[s].mounted
  /\ surfaces' = [surfaces EXCEPT ![s] =
       [unmounted EXCEPT !.listeners = cleanup(surfaces[s]).listeners,
                         !.removed = cleanup(surfaces[s]).removed]]
  /\ UNCHANGED <<ctl, chunks, pushed, hist, cacheVars, genVars, genCalls, loaded,
                 rendered>>

(* The load of url completes: the image is decoded and becomes the texture's
   image, or the video has its metadata; the element's load handlers run. *)
LoadComplete(url) ==
  /\ url \in DOMAIN textureCache
  /\ url \notin loaded
  /\ loaded' = loaded \cup {url}
  /\ surfaces' = [s \in Surfaces |->
       IF url \in surfaces[s].listeners THEN markReady(surfaces[s], url)
       ELSE surfaces[s]]
  /\ UNCHANGED <<ctl, chunks, pushed, hist, cacheVars, genVars, genCalls, rendered>>

(* A frame: the chunk's visibility changed and the MediaPlane is rendered
   again; the memo's dependencies are the same, the paint effect runs when
   the surface is ready (line 194). *)
Rerender(s, v) ==
  /\ surfaces[s].mounted
  /\ surfaces[s].visibility # v
  /\ surfaces' = [surfaces EXCEPT ![s] =
       [@ EXCEPT !.visibility = v,
                 !.opacity = IF surfaces[s].isReady /\ surfaces[s].readyRef
                                  /\ surfaces[s].texture # "none"
                               THEN v ELSE @]]
  /\ UNCHANGED <<ctl, chunks, pushed, hist, cacheVars, genVars, genCalls, loaded,
                 rendered>>

SurfNext ==
  \/ \E s \in Surfaces, item \in SurfItems, v \in SurfVis : Mount(s, item, v)
  \/ \E s \in Surfaces, item \in SurfItems : ChangeMedia(s, item)
  \/ \E s \in Surfaces : Unmount(s)
  \/ \E url \in MediaUrls : LoadComplete(url)
  \/ \E s \in Surfaces, v \in SurfVis : Rerender(s, v)

SurfSpec == Init /\ [][SurfNext]_vars

(* What a MediaPlane returns, lines 261-270: a mesh or null. *)
rendersQuad(s) ==
  surfaces[s].mounted /\ surfaces[s].texture # "none" /\ surfaces[s].isReady

(* The media element of the surface's resource has usable natural dimensions
   now. *)
UsableDimensions(s) ==
  LET d == getMediaDimensions(textureCache, loaded, surfaces[s].texture)
  IN  d[1] > 0 /\ d[2] > 0

(* C12 as stated: a surface renders a quad only if it is Ready; a Ready
   surface's media element has usable natural dimensions, or its resource has
   no media element; and a surface whose resource has not loaded is not
   Ready. *)
C12_AsStated ==
  \A s \in Surfaces :
    /\ rendersQuad(s) => surfaces[s].isReady
    /\ surfaces[s].mounted /\ surfaces[s].isReady =>
         \/ UsableDimensions(s)
         \/ imageOf(textureCache, loaded, surfaces[s].texture) = "undefined"
    /\ surfaces[s].mounted /\ surfaces[s].media.url \notin loaded =>
         ~surfaces[s].isReady

(* C13: a load completion changes nothing of a surface that is unmounted or
   has another media item assigned by then; a media change leaves the surface
   Ready only if the new resource has usable dimensions or no media element
   at that moment, and otherwise not Ready with opacity 0 and waiting for the
   new resource alone; and a surface that keeps its media becomes Ready only
   in the step in which the load of that media completes. *)
C13_NoStaleCallback ==
  [][\A s \in Surfaces :
       /\ \A url \in loaded' \ loaded :
            ~surfaces[s].mounted \/ surfaces[s].media.url # url =>
              surfaces'[s] = surfaces[s]
       /\ /\ surfaces[s].mounted /\ surfaces'[s].mounted
          /\ surfaces'[s].media # surfaces[s].media
          => IF surfaces'[s].isReady
               THEN \/ UsableDimensions(s)'
                    \/ imageOf(textureCache', loaded', surfaces'[s].texture) = "undefined"
               ELSE /\ surfaces'[s].opacity = 0
                    /\ ~surfaces'[s].readyRef
                    /\ surfaces'[s].listeners = {surfaces'[s].media.url}
       /\ /\ surfaces[s].mounted /\ surfaces'[s].mounted
          /\ surfaces'[s].media = surfaces[s].media
          /\ ~surfaces[s].isReady /\ surfaces'[s].isReady
          => surfaces[s].media.url \in loaded' \ loaded]_vars

(* The load of b.mp4 completed after one surface, which had been waiting for
   it, was given other media and is still not Ready, and after the other
   surface, which had been waiting for it too, was unmounted. *)
C13_Witness ==
  /\ "b.mp4" \in loaded
  /\ \E s, t \in Surfaces :
       /\ s # t
       /\ "b.mp4" \in surfaces[s].removed
       /\ surfaces[s].mounted /\ surfaces[s].media.url # "b.mp4"
       /\ ~surfaces[s].isReady
       /\ "b.mp4" \in surfaces[t].removed
       /\ ~surfaces[t].mounted /\ ~surfaces[t].readyRef

(* C14 as stated: every surface that renders has the scale (H * w / h, H) when
   its resource has natural dimensions (w, h) now, and (H, H) only when it has
   none. *)
C14_AsStated ==
  \A s \in Surfaces :
    rendersQuad(s) =>
      LET d == getMediaDimensions(textureCache, loaded, surfaces[s].texture)
      IN  surfaces[s].displayScale =
            IF d[1] > 0 /\ d[2] > 0
              THEN <<(BaseSize(s) * d[1]) \div d[2], BaseSize(s)>>
              ELSE <<BaseSize(s), BaseSize(s)>>

(***************************************************************************)
(* Chunk and the scene root, scene.tsx lines 274-304 and 608-614.          *)
(***************************************************************************)
MaxMedia == 4
RenderCoords == {-1, 0, 2}

(* The media prop: the first n items of a list. *)
AllMedia ==
  <<[url |-> "a.jpg", type |-> "image"], [url |-> "b.mp4", type |-> "video"],
    [url |-> "c.png", type |-> "image"], [url |-> "d.jpg", type |-> "image"],
    [url |-> "e.mp4", type |-> "video"], [url |-> "f.png", type |-> "image"]>>
MediaLists == {SubSeq(AllMedia, 1, n) : n \in 0..MaxMedia}

(* The number that stands for NaN. *)
NaN == -1

(* a % n of two non-negative integers: NaN when n is 0. *)
jsMod(a, n) == IF n = 0 THEN NaN ELSE a % n

(* array[i]: undefined (here NoMedia) when i is not an index of the array. *)
arrayAt(array, i) ==
  IF i \in 0..(Len(array) - 1) THEN array[i + 1] ELSE NoMedia

(* An index taken as it is, one-based. *)
mediaItemOf_OneBased(media, mediaIndex) == arrayAt(media, mediaIndex + 1)

(* media[plane.mediaIndex % media.length], line 292. *)
mediaItemOf(media, mediaIndex) ==
  arrayAt(media, jsMod(mediaIndex, Len(media)))

(* A Chunk is rendered (lines 287-303): one child per plane, with the plane's
   id as key, null (NoMedia) where there is no media item. *)
ChunkRender(cx, cy, cz, media) ==
  /\ \E planes \in {generateChunkPlanes(cx, cy, cz, Len(media))} :
       rendered' =
         [component |-> "Chunk", n |-> Len(media),
          ids |-> [i \in 1..Len(planes) |-> planes[i].id],
          slots |-> [i \in 1..Len(planes) |-> planes[i].mediaIndex],
          children |-> [i \in 1..Len(planes) |->
                          mediaItemOf(media, planes[i].mediaIndex)]]
  /\ hashed' = hashCall(chunkKeyString(cx, cy, cz))
  /\ UNCHANGED <<ctl, chunks, pushed, hist, cacheVars, genLog, lastGen, genCalls,
                 loaded, surfaces>>

(* InfiniteCanvasScene is rendered (lines 608-614): null for an empty list,
   else the canvas with the controller. *)
RootRender(media) ==
  /\ rendered' =
       [component |-> "InfiniteCanvasScene", n |-> Len(media), ids |-> <<>>,
        slots |-> <<>>,
        children |-> IF Len(media) = 0 THEN <<>> ELSE <<"SceneController">>]
  /\ UNCHANGED <<ctl, chunks, pushed, hist, cacheVars, genVars, genCalls, loaded,
                 surfaces>>

RenderNext ==
  \/ \E cx, cy, cz \in RenderCoords, media \in MediaLists :
       ChunkRender(cx, cy, cz, media)
  \/ \E media \in MediaLists : RootRender(media)

RenderSpec == Init /\ [][RenderNext]_vars

(* C15: a Chunk rendered with n > 0 media items has 5 children, the child of
   each placement being the item at index (media slot mod n), an index of
   0..n-1; with n = 0 a Chunk has no child that is a surface and the scene
   root renders nothing. *)
C15_MediaIndex ==
  /\ rendered.component = "Chunk" =>
       /\ Len(rendered.children) = ITEMS_PER_CHUNK
       /\ \A i \in 1..ITEMS_PER_CHUNK :
            IF rendered.n > 0
              THEN /\ rendered.slots[i] % rendered.n \in 0..(rendered.n - 1)
                   /\ rendered.children[i] =
                        AllMedia[(rendered.slots[i] % rendered.n) + 1]
              ELSE rendered.children[i] = NoMedia
  /\ rendered.component = "InfiniteCanvasScene" =>
       (rendered.n = 0 <=> rendered.children = <<>>)

(* A Chunk was rendered with four items and uses more than one of them, the
   last included. *)
C15_Witness ==
  /\ rendered.component = "Chunk"
  /\ rendered.n = MaxMedia
  /\ \E i, j \in 1..ITEMS_PER_CHUNK :
       /\ rendered.slots[i] = MaxMedia - 1
       /\ rendered.children[j] # rendered.children[i]

(* A Chunk was rendered with no media. *)
C15_WitnessEmpty ==
  /\ rendered.component = "Chunk"
  /\ rendered.n = 0
  /\ Len(rendered.children) = ITEMS_PER_CHUNK

(***************************************************************************)
(* Touch input from contacts on the screen.  A finger goes down, moves or  *)
(* is lifted; each change is reported by one touch event whose touch list  *)
(* is the list of the contacts then on the screen, in the order in which   *)
(* they went down.  Two contacts are never at the same point.              *)
(***************************************************************************)
MaxContacts == 3
MaxPinchEvents == 3
PinchFrames == 2

TouchOn(target, id, pos) ==
  [identifier |-> id, clientX |-> pos[1], clientY |-> pos[2], target |-> target]
Touch(id, pos) == TouchOn("canvas", id, pos)
TouchIds == 1..MaxContacts
TouchPos == {<<0, 0>>, <<30, 40>>, <<60, 80>>}

(* The event budget of a run. *)
Tallied(limit) == events < limit /\ events' = events + 1

Free(pos) ==
  \A i \in 1..Len(contacts) :
    contacts[i].clientX # pos[1] \/ contacts[i].clientY # pos[2]

Without(seq, i) == SubSeq(seq, 1, i - 1) \o SubSeq(seq, i + 1, Len(seq))

(* touchstart: a new contact. *)
FingerDown(id, pos, limit) ==
  /\ Tallied(limit)
  /\ Len(contacts) < MaxContacts
  /\ \A i \in 1..Len(contacts) : contacts[i].identifier # id
  /\ Free(pos)
  /\ onTouchStart(Append(contacts, Touch(id, pos)))

(* touchmove: contact i is somewhere else. *)
FingerMove(i, pos, limit) ==
  /\ Tallied(limit)
  /\ i \in 1..Len(contacts)
  /\ contacts[i].target = "canvas"
  /\ Free(pos)
  /\ onTouchMove([contacts EXCEPT ![i] = Touch(@.identifier, pos)])

(* touchend: contact i is lifted. *)
FingerUp(i, limit) ==
  /\ Tallied(limit)
  /\ i \in 1..Len(contacts)
  /\ contacts[i].target = "canvas"
  /\ onTouchEnd(Without(contacts, i))

(* PinchSpec: two fingers, the keys W and S, and the first frames. *)
PinchNext ==
  \/ \E id \in 1..2, pos \in TouchPos : FingerDown(id, pos, MaxPinchEvents)
  \/ \E i \in 1..2, pos \in TouchPos : FingerMove(i, pos, MaxPinchEvents)
  \/ \E i \in 1..2 : FingerUp(i, MaxPinchEvents)
  \/ \E key \in {"w", "s"} : Tallied(MaxPinchEvents) /\ onKeyDown(key)
  \/ frameNo < PinchFrames /\ LiveFrame

PinchSpec == Init /\ [][PinchNext]_vars

(* The distance of the first two contacts on the screen, pixels. *)
ContactDistance(c) ==
  LET dx == c[1].clientX - c[2].clientX
      dy == c[1].clientY - c[2].clientY
  IN  sqrt(dx * dx + dy * dy)

(* A touch event that reports two contacts after two contacts. *)
TwoFingerMove ==
  /\ Len(contacts) = 2 /\ Len(contacts') = 2
  /\ contacts' # contacts

(* The sign of the change of z that holding W gives: forward. *)
ForwardSign == Sign(keyPhase(Vec(0, 0, 0), {"w"}).z)

(* C16 as stated: a pinch-in adds 0.006 * |distance change| to the scroll
   accumulator with the sign that moves the camera as W does, a pinch-out
   with the sign that moves it as S does; the scroll accumulator is added to
   the target velocity along z. *)
C16_AsStated ==
  [][TwoFingerMove =>
       LET change == ContactDistance(contacts') - ContactDistance(contacts)
       IN  scrollAccum' - scrollAccum =
             (IF change < 0 THEN ForwardSign ELSE -ForwardSign)
               * Abs(change) * ((6 * UNIT) \div 1000)]_vars

(* C16: a two-finger move adds 0.006 * (previous distance - distance) to the
   scroll accumulator: a positive amount for a pinch-in, a negative one for a
   pinch-out; and from rest a frame moves the camera toward +z when the
   accumulator is positive, as it does when S is held, and toward -z when it
   is negative, as it does when W is held. *)
C16_PinchDirection ==
  /\ [][TwoFingerMove =>
          scrollAccum' - scrollAccum =
            (ContactDistance(contacts) - ContactDistance(contacts'))
              * ((6 * UNIT) \div 1000)]_vars
  /\ [][FrameTaken /\ velocity = Vec(0, 0, 0) /\ targetVel = Vec(0, 0, 0) =>
          /\ keys = {"w"} /\ scrollAccum = 0 => camera'.z < camera.z
          /\ keys = {"s"} /\ scrollAccum = 0 => camera'.z > camera.z
          /\ keys = {} /\ scrollAccum > 0 => camera'.z > camera.z
          /\ keys = {} /\ scrollAccum < 0 => camera'.z < camera.z]_vars

(* Two fingers were pinched in and a frame has run: the camera has moved
   toward +z, away from where W leads. *)
C16_Witness ==
  /\ Len(contacts) = 2
  /\ ContactDistance(contacts) = 50
  /\ lastTouchDist = 50
  /\ scrollAccum > 0
  /\ keys = {}
  /\ frameNo = 1
  /\ camera.z > 50 * UNIT

(***************************************************************************)
(* Mouse input from the buttons of the mouse: a button is pressed on the   *)
(* canvas, released anywhere, and the pointer moves.                       *)
(***************************************************************************)
MaxMouseEvents == 4

(* MouseEvent.button: 0 is the primary button, 2 the secondary one. *)
MouseButtons == {0, 2}
DragPts == {Pt(0, 0), Pt(10, 5), Pt(300, -40)}

Press(button, p) ==
  /\ Tallied(MaxMouseEvents)
  /\ button \notin buttons
  /\ onMouseDown(p, button)

Release(button) ==
  /\ button \in buttons
  /\ MouseUp(button)

PointerMove(p) == Tallied(MaxMouseEvents) /\ onMouseMove(p)

MouseNext ==
  \/ \E button \in MouseButtons, p \in DragPts : Press(button, p)
  \/ \E button \in MouseButtons : Release(button)
  \/ \E p \in DragPts : PointerMove(p)

MouseSpec == Init /\ [][MouseNext]_vars

(* C17 as stated: a pointer move to p changes the target velocity by
   (-0.012 * dx, +0.012 * dy), the pointer's displacement since the previous
   pointer event of the drag, when the primary button is held, and in every
   other state leaves target velocity, velocity, scroll accumulator and
   camera as they are. *)
C17_AsStated ==
  [][\A p \in DragPts :
       PointerMove(p) =>
         IF 0 \in buttons
           THEN /\ targetVel'.x =
                     targetVel.x - (p.clientX - lastMouse.clientX) * ((12 * UNIT) \div 1000)
                /\ targetVel'.y =
                     targetVel.y + (p.clientY - lastMouse.clientY) * ((12 * UNIT) \div 1000)
                /\ targetVel'.z = targetVel.z
           ELSE UNCHANGED <<targetVel, velocity, scrollAccum, camera>>]_vars

(***************************************************************************)
(* Touch input with contacts on and off the canvas.  The three touch       *)
(* listeners are on the canvas (lines 436-438), so they run for the        *)
(* contacts that went down on the canvas only, while e.touches, which the  *)
(* handlers read (lines 385, 393, 426), lists every contact on the screen, *)
(* the ones that went down on the rest of the page (the header, the        *)
(* overlay) included.                                                      *)
(***************************************************************************)
MaxTouchEvents == 4

(* The handlers' refs and what they feed. *)
touchState == <<camera, velocity, targetVel, scrollAccum, keys, isDragging,
                lastMouse, lastTouches, lastTouchDist, cursor, frames,
                sinceReset, fps, chunks, pushed, prevChunks, keyNudge,
                frameNo, aux, buttons>>

(* A contact goes down outside the canvas: no listener of the canvas runs. *)
FingerDownElsewhere(id, pos, limit) ==
  /\ Tallied(limit)
  /\ Len(contacts) < MaxContacts
  /\ \A i \in 1..Len(contacts) : contacts[i].identifier # id
  /\ Free(pos)
  /\ contacts' = Append(contacts, TouchOn("page", id, pos))
  /\ UNCHANGED touchState

(* A contact that went down outside the canvas moves. *)
FingerMoveElsewhere(i, pos, limit) ==
  /\ Tallied(limit)
  /\ i \in 1..Len(contacts)
  /\ contacts[i].target = "page"
  /\ Free(pos)
  /\ contacts' = [contacts EXCEPT ![i] = TouchOn("page", @.identifier, pos)]
  /\ UNCHANGED touchState

(* A contact that went down outside the canvas is lifted. *)
FingerUpElsewhere(i, limit) ==
  /\ Tallied(limit)
  /\ i \in 1..Len(contacts)
  /\ contacts[i].target = "page"
  /\ contacts' = Without(contacts, i)
  /\ UNCHANGED touchState

TouchNext ==
  \/ \E id \in TouchIds, pos \in TouchPos : FingerDown(id, pos, MaxTouchEvents)
  \/ \E i \in TouchIds, pos \in TouchPos : FingerMove(i, pos, MaxTouchEvents)
  \/ \E i \in TouchIds : FingerUp(i, MaxTouchEvents)
  \/ \E id \in TouchIds, pos \in TouchPos :
       FingerDownElsewhere(id, pos, MaxTouchEvents)
  \/ \E i \in TouchIds, pos \in TouchPos :
       FingerMoveElsewhere(i, pos, MaxTouchEvents)
  \/ \E i \in TouchIds : FingerUpElsewhere(i, MaxTouchEvents)

TouchSpec == Init /\ [][TouchNext]_vars

(* The contacts of the preceding touch event with the identifier id. *)
Preceding(id) ==
  {lastTouches[k] : k \in {j \in 1..Len(lastTouches) : lastTouches[j].identifier = id}}

(* A touchmove has run on the canvas. *)
CanvasTouchMove ==
  \E i \in TouchIds, pos \in TouchPos : FingerMove(i, pos, MaxTouchEvents)

(* C18 as stated: a touchmove with one contact changes the target velocity
   by 0.02 times the displacement of that contact since the preceding touch
   event (x reversed, as in the handler), a touchmove with two contacts
   changes the scroll accumulator by 0.006 times the change of the distance
   of these two contacts since the preceding touch event, or by nothing when
   the preceding event did not have both, and every other touchmove changes
   neither. *)
C18_AsStated ==
  [][CanvasTouchMove =>
       /\ Len(contacts') = 1 =>
            /\ \A prev \in Preceding(contacts'[1].identifier) :
                 /\ targetVel'.x = targetVel.x
                      - (contacts'[1].clientX - prev.clientX) * ((2 * UNIT) \div 100)
                 /\ targetVel'.y = targetVel.y
                      + (contacts'[1].clientY - prev.clientY) * ((2 * UNIT) \div 100)
            /\ Preceding(contacts'[1].identifier) # {}
            /\ scrollAccum' = scrollAccum
       /\ Len(contacts') = 2 =>
            /\ targetVel' = targetVel
            /\ IF Preceding(contacts'[1].identifier) # {}
                    /\ Preceding(contacts'[2].identifier) # {}
                 THEN \A a \in Preceding(contacts'[1].identifier),
                         b \in Preceding(contacts'[2].identifier) :
                        scrollAccum' = scrollAccum
                          + pinchDelta(getTouchDistance(<<a, b>>),
                                       getTouchDistance(contacts'))
                 ELSE scrollAccum' = scrollAccum
       /\ Len(contacts') > 2 => targetVel' = targetVel /\ scrollAccum' = scrollAccum
       /\ lastTouches' = contacts']_vars

(***************************************************************************)
(* Large inputs between frames: a wheel turn of 10000, a drag over 2000    *)
(* pixels, a touch pan and a held key, several of them before one frame.   *)
(***************************************************************************)
MaxVelEvents == 3
VelFrames == 4

VelWheel == {10000, -10000}
VelPts == {Pt(0, 0), Pt(2000, -2000)}

VelNext ==
  \/ \E deltaY \in VelWheel : Tallied(MaxVelEvents) /\ onWheel(deltaY)
  \/ \E p \in VelPts : Tallied(MaxVelEvents) /\ onMouseDown(p, 0)
  \/ \E p \in VelPts : Tallied(MaxVelEvents) /\ onMouseMove(p)
  \/ \E pos \in TouchPos : FingerDown(1, pos, MaxVelEvents)
  \/ \E pos \in TouchPos : FingerMove(1, pos, MaxVelEvents)
  \/ \E key \in {"w", "d"} : Tallied(MaxVelEvents) /\ onKeyDown(key)
  \/ frameNo < VelFrames /\ LiveFrame

VelSpec == Init /\ [][VelNext]_vars

(* The target velocity a frame eases toward, lines 469-503: after the keys,
   the scroll accumulator and the clamp. *)
frameTarget ==
  clampVel([keyPhase(targetVel, keys) EXCEPT !.z = @ + scrollAccum])

Bounded(v) ==
  /\ Abs(v.x) <= MAX_VELOCITY
  /\ Abs(v.y) <= MAX_VELOCITY
  /\ Abs(v.z) <= MAX_VELOCITY

(* C19: in every state each axis of the velocity is within 3.2 of zero; in
   every frame the velocity is eased toward a target that is within
   [-3.2, 3.2] on each axis, whatever the events before the frame made of
   the target velocity and of the scroll accumulator, and the camera moves
   by the new velocity, at most 3.2 along each axis. *)
C19_VelocityBound ==
  /\ [] Bounded(velocity)
  /\ [][FrameTaken =>
          /\ Bounded(frameTarget)
          /\ velocity' = easeVel(velocity, frameTarget)
          /\ camera' = Vec(camera.x + velocity'.x, camera.y + velocity'.y,
                           camera.z + velocity'.z)
          /\ Abs(camera'.x - camera.x) <= MAX_VELOCITY
          /\ Abs(camera'.y - camera.y) <= MAX_VELOCITY
          /\ Abs(camera'.z - camera.z) <= MAX_VELOCITY]_vars

(* Frames have run after a wheel turn and a drag that put the target far
   outside the bounds: the scroll accumulator is still above 3.2, the target
   left by the last frame is the decayed bound on x and on z, and the
   velocity has followed. *)
C19_Witness ==
  /\ frameNo >= 2
  /\ scrollAccum > MAX_VELOCITY
  /\ targetVel.z = (MAX_VELOCITY * 9) \div 10
  /\ targetVel.x = -((MAX_VELOCITY * 9) \div 10)
  /\ velocity.z > UNIT \div 2
  /\ velocity.x < 0

(***************************************************************************)
(* Mouse buttons and touch contacts on the canvas, interleaved.            *)
(***************************************************************************)
MaxCursorEvents == 4

CursorNext ==
  \/ \E button \in MouseButtons, p \in DragPts :
       Tallied(MaxCursorEvents) /\ button \notin buttons /\ onMouseDown(p, button)
  \/ \E button \in MouseButtons : Release(button)
  \/ \E id \in 1..2, pos \in TouchPos : FingerDown(id, pos, MaxCursorEvents)
  \/ \E i \in 1..2 : FingerUp(i, MaxCursorEvents)

CursorSpec == Init /\ [][CursorNext]_vars

(* A mouse button pressed on the canvas is held, or a contact is down. *)
DragInProgress == buttons # {} \/ Len(contacts) >= 1

(* C20 as stated: the cursor of the canvas is "grabbing" when a mouse button
   press is held or a touch contact is down, and "grab" otherwise. *)
C20_AsStated ==
  /\ DragInProgress => cursor = "grabbing"
  /\ ~DragInProgress => cursor = "grab"

(***************************************************************************)
(* The frame-rate counter, lines 457-465, with frames that come 16, 100,   *)
(* 250 or 450 ms after the previous one.                                   *)
(***************************************************************************)
FpsFrames == 6
FpsDts == {16, 100, 250, 450}

FpsNext == frameNo < FpsFrames /\ \E dt \in FpsDts : FrameStep(dt)

FpsSpec == Init /\ [][FpsNext]_vars

(* A frame has reset the counter: it made a report. *)
Reported == frames' = 0 /\ sinceReset' = 0

(* C21: a frame that comes dt ms after the previous one reports if and only
   if 400 ms or more have passed since the last reset; the value reported
   is the count of frames since the reset, this frame included, divided by
   the seconds since the reset, rounded to the nearest integer, halves up;
   after a report the count and the time since the reset are 0, otherwise
   the count is one more and the time dt more, so that a report is made no
   sooner than 400 ms after the reset the report before it made. *)
C21_FrameRateCounter ==
  [][\A dt \in FpsDts :
       FrameStep(dt) =>
         /\ Reported <=> sinceReset + dt >= 400
         /\ Reported =>
              /\ 2 * (frames + 1) * 1000 - (sinceReset + dt)
                   < 2 * (sinceReset + dt) * fps'
              /\ 2 * (sinceReset + dt) * fps'
                   <= 2 * (frames + 1) * 1000 + (sinceReset + dt)
         /\ ~Reported =>
              /\ frames' = frames + 1
              /\ sinceReset' = sinceReset + dt
              /\ sinceReset' < 400
              /\ fps' = fps]_vars

(* Three frames over 450 ms have been counted and reported as 7 per second
   (6.67 rounded), and the counter starts again from 0. *)
C21_Witness ==
  /\ frameNo >= 3
  /\ frames = 0
  /\ sinceReset = 0
  /\ fps = 7

(***************************************************************************)
(* Well-formedness of the active chunk list.                               *)
(***************************************************************************)
(* floor(position / CHUNK_SIZE) of the camera of this state. *)
cameraFloor ==
  <<camera.x \div (CHUNK_SIZE * UNIT), camera.y \div (CHUNK_SIZE * UNIT),
    camera.z \div (CHUNK_SIZE * UNIT)>>

(* The key strings of the active list. *)
keyStrings ==
  {chunkKeyString(chunks[k].cx, chunks[k].cy, chunks[k].cz) : k \in DOMAIN chunks}

(* C22: in the seeded list and after every frame, the entries pushed are as
   many as their keys and as their key strings (no key occurs twice), every
   entry's key is that of its own cx, cy, cz, every entry is within
   Chebyshev distance 3 of floor(position / CHUNK_SIZE) of the camera, and
   the list has at most 343 entries. *)
C22_ActiveSetWellFormed ==
  /\ pushed = Cardinality(DOMAIN chunks)
  /\ pushed = Cardinality(keyStrings)
  /\ \A k \in DOMAIN chunks :
       /\ chunks[k].key = k
       /\ chunks[k].key = <<chunks[k].cx, chunks[k].cy, chunks[k].cz>>
       /\ Cheb(k, cameraFloor) <= 3
  /\ pushed <= 343

(* The camera has crossed into the chunk at x = -1: the list has lost
   entries and still holds the fading chunk (2, 0, 0), at distance 3. *)
C22_Witness ==
  /\ frameNo > 0
  /\ cameraFloor[1] = -1
  /\ <<2, 0, 0>> \in DOMAIN chunks
  /\ chunks[<<2, 0, 0>>].visibility < UNIT
  /\ pushed < 343

(***************************************************************************)
(* hashString on its own, lines 58-66.  Its callers pass chunk keys (line  *)
(* 136); the strings below are the keys of the chunks around the origin,   *)
(* keys of chunks further out, and strings that are no keys.               *)
(***************************************************************************)
HashCoords == -2..2

(* Keys of chunks far out: three whose accumulator ends at -2^31, and one
   with long coordinates. *)
FarKeys ==
  {chunkKeyString(-452, -754, 803), chunkKeyString(-769, 882, -367),
   chunkKeyString(517, -337, -969), chunkKeyString(1000, -1000, 99999)}

(* "", "a", "polygenelubricants" (accumulator -2^31) and a string of code
   units above 255. *)
OtherStrings ==
  {<<>>, <<97>>,
   <<112, 111, 108, 121, 103, 101, 110, 101, 108, 117, 98, 114, 105, 99, 97,
     110, 116, 115>>,
   <<65535, 65535, 65535, 65535, 65535, 65535, 65535>>}

HashInputs ==
  {chunkKeyString(cx, cy, cz) : cx \in HashCoords, cy \in HashCoords, cz \in HashCoords}
    \cup FarKeys \cup OtherStrings

(* hashString is called with str. *)
Hash(str) ==
  /\ hashed' = hashCall(str)
  /\ UNCHANGED <<ctl, chunks, pushed, hist, cacheVars, genLog, lastGen, genCalls,
                 surfVars>>

HashNext == \E str \in HashInputs : Hash(str)

HashSpec == Init /\ [][HashNext]_vars

(* A pair <<hi, lo>> that stands for the integer hi * 2^16 + lo, not
   negative. *)
NonNegative(h) == h[1] >= 0 /\ h[2] \in 0..(Half - 1)

(* The int32 with the bits of acc is negative: its sign bit is set. *)
SignBit(acc) == acc[1] >= Half \div 2

(* Two pairs whose integers add up to 2^32. *)
AddTo2p32(a, b) ==
  \/ a[2] + b[2] = 0 /\ a[1] + b[1] = Half
  \/ a[2] + b[2] = Half /\ a[1] + b[1] = Half - 1

(* The accumulator after the loop over the string last hashed. *)
accumulator == hashLoop(hashed.str, Len(hashed.str))

(* C23: the result of hashString is an integer that is not negative: the
   accumulator itself when the accumulator, wrapped to a signed 32-bit
   integer, is not negative, and otherwise its negation, 2^32 minus its
   bits, which for an accumulator of -2^31 is 2^31. *)
C23_HashNonNegative ==
  /\ NonNegative(hashed.h)
  /\ ~SignBit(accumulator) => hashed.h = accumulator
  /\ SignBit(accumulator) => AddTo2p32(hashed.h, accumulator)
  /\ hashed.h[1] < Half \div 2 \/ hashed.h = <<Half \div 2, 0>>

(* The key of chunk (-452, -754, 803) has been hashed: the accumulator has
   ended at -2^31 and the result is 2^31. *)
C23_Witness ==
  /\ hashed.str = chunkKeyString(-452, -754, 803)
  /\ accumulator = <<Half \div 2, 0>>
  /\ hashed.h = <<Half \div 2, 0>>

====
